---------------------------- MODULE Spec2Model ----------------------------
(***************************************************************************)
(* Structural-region-graph matching of an over-segmented volume onto a    *)
(* reference label set (STAP-liver).  The module models the two pipeline  *)
(* scripts, explorations/2d_full_process.py ("full2d") and calibration.py *)
(* ("calibration"), together with the graph, normalisation and cost       *)
(* functions of spine_liver_functions.py they call.                       *)
(*                                                                         *)
(* Numbers.  numpy float64 values are modelled in fixed point: a finite   *)
(* value x is the integer x * SCALE (division truncates toward zero), and *)
(* the IEEE specials +inf, -inf and NaN are the integers PInf, NInf and   *)
(* NaN, with the IEEE rules for them written out in the F* operators.     *)
(*                                                                         *)
(* Arrays.  A volume or labelmap is a function on the voxel indices       *)
(* 0..N-1 in C (row-major) order, which is the order of numpy's flatten,  *)
(* unique/where scans and of ndimage.label's numbering.  A vertex matrix  *)
(* is a function 0..K-1 -> <<cx, cy, cz, intensity, size>>; an edge matrix *)
(* is a function 0..K*K-1 -> 5-tuple whose row i*K+j is the pair (i, j).   *)
(***************************************************************************)
EXTENDS Integers, Sequences, FiniteSets, TLC

(***************************************************************************)
(* Bounds of the model.                                                    *)
(***************************************************************************)
\* fixed-point resolution: 1.0 is SCALE
SCALE == 120
\* reference labelmaps draw their labels from 0..MaxLabel
MaxLabel == 2
\* calibration.py runs 200 epochs; the model follows the first MaxEpochs
MaxEpochs == 3
\* shape of the volume grid <<nx, ny, nz>>
Shape == <<3, 1, 2>>

(***************************************************************************)
(* IEEE specials.                                                          *)
(***************************************************************************)
PInf == 1000000000
NInf == -PInf
NaN == 2000000000

IsNaN(a) == a = NaN
IsFinite(a) == a > NInf /\ a < PInf

\* truncating division (the fixed-point rounding is symmetric in sign)
Div(a, b) == IF a >= 0 THEN a \div b ELSE -((-a) \div b)

Abs(a) == IF a < 0 THEN -a ELSE a

\* the array holding the values of f: every element is computed once, when the
\* array is made, as numpy does
Array(f) == f @@ << >>

\* the element of a one-element set.  Value({e : x \in {d}}) is e with x naming
\* the value of d, which is computed once: Python's "x = d" followed by e
Value(S) == CHOOSE r \in S : TRUE

RECURSIVE IsqrtBits(_, _, _)
\* largest r with r*r <= n, found bit by bit from the bit value b downward
IsqrtBits(n, r, b) ==
    IF b = 0 THEN r
    ELSE Value({IsqrtBits(n, root, half) :
                   root \in {IF (r + b) * (r + b) <= n THEN r + b ELSE r},
                   half \in {b \div 2}})

Isqrt(n) == IsqrtBits(n, 0, 16384)

FNeg(a) == IF IsNaN(a) THEN NaN ELSE -a

FAdd(a, b) ==
    IF IsNaN(a) \/ IsNaN(b) THEN NaN
    ELSE IF ~IsFinite(a) THEN (IF ~IsFinite(b) /\ a # b THEN NaN ELSE a)
    ELSE IF ~IsFinite(b) THEN b
    ELSE a + b

FSub(a, b) == FAdd(a, FNeg(b))

FAbs(a) == IF IsNaN(a) THEN NaN ELSE Abs(a)

\* product of two fixed-point values
FMul(a, b) ==
    IF IsNaN(a) \/ IsNaN(b) THEN NaN
    ELSE IF ~IsFinite(a) \/ ~IsFinite(b)
         THEN (IF a = 0 \/ b = 0 THEN NaN
               ELSE IF (a > 0) = (b > 0) THEN PInf ELSE NInf)
    ELSE Div(a * b, SCALE)

\* quotient of two fixed-point values; numpy divides by zero without raising:
\* 0/0 is NaN and x/0 is an infinity
FDiv(a, b) ==
    IF IsNaN(a) \/ IsNaN(b) THEN NaN
    ELSE IF b = 0 THEN (IF a = 0 THEN NaN ELSE IF a > 0 THEN PInf ELSE NInf)
    ELSE IF ~IsFinite(a)
         THEN (IF ~IsFinite(b) THEN NaN
               ELSE IF (a > 0) = (b > 0) THEN PInf ELSE NInf)
    ELSE IF ~IsFinite(b) THEN 0
    ELSE Div(a * SCALE, b)

\* a comparison in which NaN is lower than everything
FLtNaNLowest(a, b) == IsNaN(a) \/ (~IsNaN(b) /\ a < b)

\* a < b on floats: every comparison with NaN is false
FLt(a, b) == ~IsNaN(a) /\ ~IsNaN(b) /\ a < b

RECURSIVE SumSeq(_, _)
SumSeq(s, i) == IF i > Len(s) THEN 0 ELSE s[i] + SumSeq(s, i + 1)

RECURSIVE FSumFrom(_, _, _)
\* IEEE sum of f[lo], ..., f[hi]
FSumFrom(f, lo, hi) ==
    IF lo > hi THEN 0
    ELSE Value({FAdd(f[lo], rest) : rest \in {FSumFrom(f, lo + 1, hi)}})

\* np.mean of the values f[0..n-1]
FMean(f, n) ==
    Value({IF IsFinite(s) THEN Div(s, n) ELSE s : s \in {FSumFrom(f, 0, n - 1)}})

\* np.linalg.norm of a tuple
FNorm(v) ==
    IF \E k \in DOMAIN v : IsNaN(v[k]) THEN NaN
    ELSE IF \E k \in DOMAIN v : ~IsFinite(v[k]) THEN PInf
    ELSE Value({Isqrt(squares) : squares \in {SumSeq([k \in DOMAIN v |-> v[k] * v[k]], 1)}})


(***************************************************************************)
(* The voxel grid.                                                         *)
(***************************************************************************)
NVoxels == Shape[1] * Shape[2] * Shape[3]
Voxels == 0 .. (NVoxels - 1)

\* coordinates <<x, y, z>> of the voxel with C-order index v
Coord(v) == << v \div (Shape[2] * Shape[3]), (v \div Shape[3]) % Shape[2], v % Shape[3] >>

\* np.unique(labelmap): the labels present (read in ascending order)
Unique(labelmap) == {labelmap[v] : v \in DOMAIN labelmap}

\* position of label l in the sorted array np.unique returns
RankIn(labels, l) == Cardinality({m \in labels : m < l})

\* the label at position i of the sorted array of labels
LabelAt(labels, i) == CHOOSE l \in labels : RankIn(labels, l) = i

RECURSIVE SumWhere(_, _, _, _)
\* sum of val[v] over the voxels v >= from with labelmap[v] = l
SumWhere(labelmap, l, val, from) ==
    IF from >= NVoxels THEN 0
    ELSE Value({(IF labelmap[from] = l THEN val[from] ELSE 0) + SumWhere(labelmap, l, val, next) :
                   next \in {from + 1}})

CountOf(labelmap, l) == Cardinality({v \in DOMAIN labelmap : labelmap[v] = l})

\* compute_attributes: the attribute of every label present, in np.unique order
compute_attributes(volume, labelmap, attribute) ==
    Value({
       IF attribute = "centroid"
       THEN Array([i \in 0 .. (Cardinality(labels) - 1) |->
               Value({Array([d \in 1 .. 3 |->
                         Value({Div(total * SCALE, c) :
                            total \in {SumWhere(labelmap, l, [v \in Voxels |-> Coord(v)[d]], 0)}})]) :
                      l \in {LabelAt(labels, i)},
                      c \in {CountOf(labelmap, LabelAt(labels, i))}})])
       ELSE IF attribute = "intensity"
       THEN Array([i \in 0 .. (Cardinality(labels) - 1) |->
               Value({Div(total * SCALE, CountOf(labelmap, LabelAt(labels, i))) :
                      total \in {SumWhere(labelmap, LabelAt(labels, i), volume, 0)}})])
       ELSE Array([i \in 0 .. (Cardinality(labels) - 1) |->
               CountOf(labelmap, LabelAt(labels, i)) * SCALE])
       : labels \in {Unique(labelmap)}})

\* a finite vertex for a label absent from the labelmap: all attributes 1
UnitVertex == << SCALE, SCALE, SCALE, SCALE, SCALE >>

\* the all-infinity vertex of a label absent from the labelmap
SentinelVertex == << PInf, PInf, PInf, PInf, PInf >>

\* relational attributes stored with the pair swapped: row i*K+j describes (j, i)
build_edges_swapped(vertices) ==
    LET K == Cardinality(DOMAIN vertices)
    IN Array([e \in 0 .. (K * K - 1) |->
          LET i == e % K
              j == e \div K
          IN << FSub(vertices[i][1], vertices[j][1]),
                FSub(vertices[i][2], vertices[j][2]),
                FSub(vertices[i][3], vertices[j][3]),
                FAbs(FSub(vertices[i][4], vertices[j][4])),
                FDiv(vertices[i][5], vertices[j][5]) >>])

\* the relational attributes of build_graph: row i*K+j describes the pair (i, j)
build_edges(vertices) ==
    LET K == Cardinality(DOMAIN vertices)
    IN Array([e \in 0 .. (K * K - 1) |->
          LET i == e \div K
              j == e % K
          IN << FSub(vertices[i][1], vertices[j][1]),
                FSub(vertices[i][2], vertices[j][2]),
                FSub(vertices[i][3], vertices[j][3]),
                FAbs(FSub(vertices[i][4], vertices[j][4])),
                FDiv(vertices[i][5], vertices[j][5]) >>])

\* a build_graph that fills the target-sized vertex matrix in np.unique order,
\* the labels present first
build_graph_packed(volume, labelmap, add_edges, target_vertices) ==
    Value({
       LET row(a) == << centroids[a][1], centroids[a][2], centroids[a][3],
                        intensities[a], sizes[a] >>
       IN Value({[vertices |-> vertices,
                  edges |-> IF add_edges THEN build_edges(vertices) ELSE << >>] :
             vertices \in {
                IF target_vertices = <<>>
                THEN Array([a \in DOMAIN intensities |-> row(a)])
                ELSE Array([l \in 0 .. (target_vertices[1] - 1) |->
                        IF l \in DOMAIN intensities THEN row(l) ELSE SentinelVertex])}})
       : centroids \in {compute_attributes(volume, labelmap, "centroid")},
         intensities \in {compute_attributes(volume, labelmap, "intensity")},
         sizes \in {compute_attributes(volume, labelmap, "size")}})

\* build_graph; target_vertices is <<>> for None and <<T>> for target_vertices=T
build_graph(volume, labelmap, add_edges, target_vertices) ==
    Value({
       LET row(a) == << centroids[a][1], centroids[a][2], centroids[a][3],
                        intensities[a], sizes[a] >>
       IN Value({[vertices |-> vertices,
                  edges |-> IF add_edges THEN build_edges(vertices) ELSE << >>] :
             vertices \in {
                IF target_vertices = <<>>
                THEN Array([a \in DOMAIN intensities |-> row(a)])
                ELSE Array([l \in 0 .. (target_vertices[1] - 1) |->
                        IF l \in actual_labels
                        THEN row(Cardinality({m \in actual_labels : m >= 0 /\ m < l}))
                        ELSE SentinelVertex])}})
       : centroids \in {compute_attributes(volume, labelmap, "centroid")},
         intensities \in {compute_attributes(volume, labelmap, "intensity")},
         sizes \in {compute_attributes(volume, labelmap, "size")},
         actual_labels \in {Unique(labelmap)}})

(***************************************************************************)
(* normalize_graph.                                                        *)
(***************************************************************************)
Rows(matrix) == Cardinality(DOMAIN matrix)

Column(matrix, d) == Array([i \in DOMAIN matrix |-> matrix[i][d]])

\* matrix.mean(axis=0)[d]
ColMean(matrix, d) == Value({FMean(col, Rows(matrix)) : col \in {Column(matrix, d)}})

\* matrix.std(axis=0)[d]: the square root of the mean squared deviation
ColStd(matrix, d) ==
    Value({
       IF ~IsFinite(m) \/ \E i \in DOMAIN col : ~IsFinite(col[i]) THEN NaN
       ELSE Value({Isqrt(variance) :
               variance \in {Value({Div(FSumFrom(deviations, 0, Rows(matrix) - 1), Rows(matrix)) :
                   deviations \in {Array([i \in DOMAIN col |-> (col[i] - m) * (col[i] - m)])}})}})
       : m \in {ColMean(matrix, d)}, col \in {Column(matrix, d)}})

\* a replacement that leaves the zeros in place
ZeroStdKept(std) == std

\* std[std == 0] = 1
ZeroStdToOne(std) == Array([d \in DOMAIN std |-> IF std[d] = 0 THEN SCALE ELSE std[d]])

\* (matrix - mean) / std, row by row
Standardize(matrix, mean, std) ==
    Array([i \in DOMAIN matrix |->
              Array([d \in 1 .. 5 |-> FDiv(FSub(matrix[i][d], mean[d]), std[d])])])

\* a fit that returns the standard deviations as computed, zeros included
fit_statistics_raw(graph) ==
    [mean_vertex |-> Array([d \in 1 .. 5 |-> ColMean(graph.vertices, d)]),
     std_vertex |-> Array([d \in 1 .. 5 |-> ColStd(graph.vertices, d)]),
     mean_edge |-> IF Rows(graph.edges) > 0
                   THEN Array([d \in 1 .. 5 |-> ColMean(graph.edges, d)]) ELSE << >>,
     std_edge |-> IF Rows(graph.edges) > 0
                  THEN Array([d \in 1 .. 5 |-> ColStd(graph.edges, d)]) ELSE << >>]

\* the statistics normalize_graph computes when called without them (the fit)
fit_statistics(graph) ==
    [mean_vertex |-> Array([d \in 1 .. 5 |-> ColMean(graph.vertices, d)]),
     std_vertex |-> Value({ZeroStdToOne(std) :
                        std \in {Array([d \in 1 .. 5 |-> ColStd(graph.vertices, d)])}}),
     mean_edge |-> IF Rows(graph.edges) > 0
                   THEN Array([d \in 1 .. 5 |-> ColMean(graph.edges, d)]) ELSE << >>,
     std_edge |-> IF Rows(graph.edges) > 0
                  THEN Value({ZeroStdToOne(std) :
                          std \in {Array([d \in 1 .. 5 |-> ColStd(graph.edges, d)])}})
                  ELSE << >>]

\* normalize_graph(graph, mean_vertex, std_vertex, mean_edge, std_edge) with all four given
normalize_graph(graph, stats) ==
    [vertices |-> Value({Standardize(graph.vertices, stats.mean_vertex, std) :
                      std \in {ZeroStdToOne(stats.std_vertex)}}),
     edges |-> IF Rows(graph.edges) > 0
               THEN Value({Standardize(graph.edges, stats.mean_edge, std) :
                       std \in {ZeroStdToOne(stats.std_edge)}})
               ELSE graph.edges]

\* the caller's statistics arrays after normalize_graph(graph, ...) was given
\* them: std_vertex[std_vertex==0] = 1 and, when the graph has edges,
\* std_edge[std_edge==0] = 1 write into the arrays that were passed
normalize_statistics(with_edges, stats) ==
    [mean_vertex |-> stats.mean_vertex,
     std_vertex |-> ZeroStdToOne(stats.std_vertex),
     mean_edge |-> stats.mean_edge,
     std_edge |-> IF with_edges THEN ZeroStdToOne(stats.std_edge) ELSE stats.std_edge]

(***************************************************************************)
(* The cost functions.                                                     *)
(***************************************************************************)
\* np.array(weights) / sum(weights)
NormalizedWeights(weights) ==
    Array([k \in DOMAIN weights |-> Div(weights[k] * SCALE, SumSeq(weights, 1))])

\* np.linalg.norm(weights * (row1 - row2)) over the first Len(weights) columns
WeightedDistance(row1, row2, weights) ==
    Value({Value({FNorm(difference) :
              difference \in {Array([k \in DOMAIN weights |-> FMul(w[k], FSub(row1[k], row2[k]))])}})
           : w \in {NormalizedWeights(weights)}})

Ones(n) == [k \in 1 .. n |-> 1]

\* compute_initial_vertex_cost: the size column is left out
compute_initial_vertex_cost(vertices1, vertices2, weights) ==
    Array([i \in DOMAIN vertices1 |-> WeightedDistance(vertices1[i], vertices2[i], weights)])

compute_vertex_cost(vertices1, vertices2, weights) ==
    Array([i \in DOMAIN vertices1 |-> WeightedDistance(vertices1[i], vertices2[i], weights)])

\* compute_edge_cost; weights is <<>> for the default weights=None
compute_edge_cost(edges1, edges2, weights) ==
    Value({Array([e \in DOMAIN edges1 |-> WeightedDistance(edges1[e], edges2[e], w)]) :
           w \in {IF weights = << >> THEN Ones(5) ELSE weights}})

\* a global cost that adds the costs up without dividing by their number
GlobalCostOfSums(vertex_costs, edge_costs, weights) ==
    Value({FAdd(FMul(weights[1] * SCALE, vertex_sum), FMul(weights[2] * SCALE, edge_sum)) :
           vertex_sum \in {FSumFrom(vertex_costs, 0, Rows(vertex_costs) - 1)},
           edge_sum \in {FSumFrom(edge_costs, 0, Rows(edge_costs) - 1)}})

\* graph_weights[0]*np.mean(vertex_costs) + graph_weights[1]*np.mean(edge_costs)
GlobalCost(vertex_costs, edge_costs, weights) ==
    Value({FAdd(FMul(weights[1] * SCALE, vertex_mean), FMul(weights[2] * SCALE, edge_mean)) :
           vertex_mean \in {FMean(vertex_costs, Rows(vertex_costs))},
           edge_mean \in {FMean(edge_costs, Rows(edge_costs))}})

\* an arg-min that returns the last minimum
ArgMinLast(costs) ==
    CHOOSE i \in DOMAIN costs :
        \A j \in DOMAIN costs : costs[i] < costs[j] \/ (costs[i] = costs[j] /\ i >= j)

\* np.argmin: the first NaN, else the first minimum
ArgMin(costs) ==
    IF \E i \in DOMAIN costs : IsNaN(costs[i])
    THEN CHOOSE i \in DOMAIN costs : IsNaN(costs[i]) /\ \A j \in DOMAIN costs : IsNaN(costs[j]) => i <= j
    ELSE CHOOSE i \in DOMAIN costs :
            \A j \in DOMAIN costs : costs[i] < costs[j] \/ (costs[i] = costs[j] /\ i <= j)

\* np.argmax: the first NaN, else the first maximum
ArgMax(costs) ==
    IF \E i \in DOMAIN costs : IsNaN(costs[i])
    THEN CHOOSE i \in DOMAIN costs : IsNaN(costs[i]) /\ \A j \in DOMAIN costs : IsNaN(costs[j]) => i <= j
    ELSE CHOOSE i \in DOMAIN costs :
            \A j \in DOMAIN costs : costs[i] > costs[j] \/ (costs[i] = costs[j] /\ i <= j)

\* a descending sort that puts equal costs in reverse index order
SortedDescendingUnstable(costs) ==
    LET before(i) == Cardinality({j \in DOMAIN costs :
                         costs[j] > costs[i] \/ (costs[j] = costs[i] /\ j > i)})
    IN Array([k \in 1 .. Rows(costs) |-> CHOOSE i \in DOMAIN costs : before(i) = k - 1])

\* sorted(enumerate(costs), key=lambda x: x[1], reverse=True): the indices by
\* descending cost; the sort is stable, so equal costs stay in index order
SortedDescending(costs) ==
    LET before(i) == Cardinality({j \in DOMAIN costs :
                         costs[j] > costs[i] \/ (costs[j] = costs[i] /\ j < i)})
    IN Array([k \in 1 .. Rows(costs) |-> CHOOSE i \in DOMAIN costs : before(i) = k - 1])

(***************************************************************************)
(* Library calls: skimage's RAG and scipy's ndimage.label.                 *)
(***************************************************************************)
\* RAG(labels) visits, from every voxel p, the voxels p + d with d in {0,1}^3
\* having one or two non-zero coordinates (connectivity 2)
Offset(p, q) == [d \in 1 .. 3 |-> Coord(q)[d] - Coord(p)[d]]

ForwardNeighbour(p, q) ==
    /\ \A d \in 1 .. 3 : Offset(p, q)[d] \in {0, 1}
    /\ Offset(p, q)[1] + Offset(p, q)[2] + Offset(p, q)[3] \in {1, 2}

\* rag.RAG(labelmap).adj: every region with the set of regions it borders
RAG(labelmap) ==
    [r \in Unique(labelmap) |->
        {labelmap[q] : q \in {q \in Voxels : \E p \in Voxels :
                                 /\ labelmap[p] = r
                                 /\ labelmap[q] # r
                                 /\ ForwardNeighbour(p, q) \/ ForwardNeighbour(q, p)}}]

\* ndimage.label's default structure: voxels sharing a face
FaceAdjacent(u, v) ==
    Abs(Offset(u, v)[1]) + Abs(Offset(u, v)[2]) + Abs(Offset(u, v)[3]) = 1

RECURSIVE Grow(_, _)
\* the connected component of the mask that contains the voxels of S
Grow(mask, S) ==
    Value({IF more = {} THEN S ELSE Value({Grow(mask, grown) : grown \in {S \cup more}}) :
           more \in {{v \in Voxels : mask[v] /\ v \notin S /\ \E u \in S : FaceAdjacent(u, v)}}})

MinOf(S) == CHOOSE x \in S : \A y \in S : x <= y

\* ndi.label(mask): components are numbered from 1 in the order a C-order scan meets them
ndi_label(mask) ==
    Value({Value({[map |-> Array([v \in Voxels |->
                             IF mask[v] THEN Cardinality({f \in firsts : f <= first[v]}) ELSE 0]),
                   count |-> Cardinality(firsts)] :
              firsts \in {{first[v] : v \in {u \in Voxels : mask[u]}}}})
           : first \in {Array([v \in Voxels |->
                             IF mask[v] THEN MinOf(Value({Grow(mask, seed) : seed \in {{v}}}))
                             ELSE -1])}})

\* the orders in which a Python set with the elements of S can be iterated
IterationOrders(S) ==
    {order \in [1 .. Cardinality(S) -> S] :
        \A i, j \in 1 .. Cardinality(S) : i # j => order[i] # order[j]}

(***************************************************************************)
(* The pipeline state.  The variables are the scripts' module-level names. *)
(***************************************************************************)
VARIABLES
    script,                 \* "full2d" or "calibration"
    model_volume, model_labelmap,
    observation_volume, observed_labelmap_data,
    model_graph, statistics,
    super_graph, super_adjacency,
    solution, solution_costs,
    joined_labelmap_data, observation_graph,
    label,                  \* loop index of the contiguity detection
    visit_order,            \* what is left of the repair sweep's sorted list
    total_epochs, epoch,
    super_vertex_index, current_prediction_index, current_cost,
    pc                      \* position in the script

inputs == << script, model_volume, model_labelmap, observation_volume, observed_labelmap_data >>
graphs == << model_graph, super_graph, super_adjacency >>
attempt == << super_vertex_index, current_prediction_index, current_cost >>
vars == << inputs, graphs, statistics, solution, solution_costs, joined_labelmap_data, observation_graph,
           label, visit_order, total_epochs, epoch, attempt, pc >>

initial_weights == IF script = "full2d" THEN << 1, 1, 0, 1 >> ELSE << 1, 1, 1, 7 >>
vertex_weights == IF script = "full2d" THEN << 1, 1, 0, 1, 10 >> ELSE << 1, 1, 1, 7, 1 >>
edge_weights == IF script = "full2d" THEN << 1, 1, 0, 1, 1 >> ELSE << 1, 1, 1, 1, 1 >>
graph_weights == << 1, 1 >>

\* total_epochs = 200 of calibration.py
CalibrationEpochs == 200

\* model_graph.vertices.shape[0]
ModelSize == Rows(model_graph.vertices)

UNASSIGNED == -1

(***************************************************************************)
(* Inputs.  The reference labelmaps are all labelings of the grid with     *)
(* labels 0..MaxLabel whose first voxel is background; the over-           *)
(* segmentation makes every voxel a super-region.                          *)
(***************************************************************************)
ModelLabelmaps == {m \in [Voxels -> 0 .. MaxLabel] : m[0] = 0}

\* a phantom whose intensity is constant on every label
LabelPhantom(labelmap) == [v \in Voxels |-> 1 + 4 * (labelmap[v] % 2)]

\* a phantom with a dark diagonal stripe
StripePhantom == [v \in Voxels |-> IF Coord(v)[1] = Coord(v)[3] THEN 1 ELSE 5]

\* a phantom brightening along the first axis
GradientPhantom == [v \in Voxels |-> 1 + 2 * Coord(v)[1]]

Init ==
    /\ script \in {"full2d", "calibration"}
    /\ model_labelmap \in ModelLabelmaps
    /\ model_volume \in {LabelPhantom(model_labelmap)}
                       \cup (IF script = "full2d" THEN {StripePhantom} ELSE {})
    /\ observation_volume = IF script = "full2d" THEN model_volume ELSE GradientPhantom
    /\ observed_labelmap_data = [v \in Voxels |-> v]
    /\ model_graph = << >> /\ statistics = << >>
    /\ super_graph = << >> /\ super_adjacency = << >>
    /\ solution = << >> /\ solution_costs = << >>
    /\ joined_labelmap_data = << >> /\ observation_graph = << >>
    /\ label = 0 /\ visit_order = << >>
    /\ total_epochs = 0 /\ epoch = 0
    /\ super_vertex_index = 0 /\ current_prediction_index = 0 /\ current_cost = 0
    /\ pc = "step2"

(***************************************************************************)
(* Steps 2, 4 and 5: the graphs and the initial solution.                  *)
(***************************************************************************)
\* normalize_graph(graph) without statistics: they are computed and returned
FitGraph(graph) ==
    Value({[graph |-> normalize_graph(graph, stats), statistics |-> stats] :
           stats \in {fit_statistics(graph)}})

\* Step 2: model_graph = build_graph(...); normalize_graph(model_graph)
GenerateModelGraph ==
    /\ pc = "step2"
    /\ \E graph \in {build_graph(model_volume, model_labelmap, TRUE, << >>)} :
          \E fitted \in {FitGraph(graph)} :
             /\ statistics' = fitted.statistics
             /\ model_graph' = fitted.graph
    /\ pc' = "step4"
    /\ UNCHANGED << inputs, super_graph, super_adjacency, solution, solution_costs,
                    joined_labelmap_data, observation_graph, label, visit_order,
                    total_epochs, epoch, attempt >>

\* Step 4: the super-observation graph and the region adjacency
GenerateSuperGraph ==
    /\ pc = "step4"
    /\ \E graph \in {build_graph(observation_volume, observed_labelmap_data, FALSE, << >>)} :
          /\ super_graph' = normalize_graph(graph, statistics)
          /\ statistics' = normalize_statistics(Rows(graph.edges) > 0, statistics)
    /\ super_adjacency' = RAG(observed_labelmap_data)
    /\ pc' = "step5"
    /\ UNCHANGED << inputs, model_graph, solution, solution_costs,
                    joined_labelmap_data, observation_graph, label, visit_order,
                    total_epochs, epoch, attempt >>

\* the costs of one super vertex to all model vertices
InitialCosts(super_vertex) ==
    Value({compute_initial_vertex_cost(repeated, model_graph.vertices, initial_weights) :
           repeated \in {Array([l \in DOMAIN model_graph.vertices |-> super_vertex])}})

\* np.argmin(costs) and np.min(costs) of one super vertex
InitialMatch(costs) ==
    Value({[prediction |-> best, cost |-> costs[best]] : best \in {ArgMin(costs)}})

\* Step 5: every super-region takes the arg-min label and keeps the min cost
GenerateInitialSolution ==
    /\ pc = "step5"
    /\ \E matches \in {Array([i \in DOMAIN super_graph.vertices |->
                              Value({InitialMatch(costs) :
                                     costs \in {InitialCosts(super_graph.vertices[i])}})])} :
          /\ solution' = [i \in DOMAIN matches |-> matches[i].prediction]
          /\ solution_costs' = [i \in DOMAIN matches |-> matches[i].cost]
    /\ label' = 0
    /\ pc' = IF script = "full2d" THEN "detect" ELSE "joining"
    /\ UNCHANGED << inputs, graphs, statistics, joined_labelmap_data, observation_graph,
                    visit_order, total_epochs, epoch, attempt >>

(***************************************************************************)
(* Joined labelmaps and the global cost of a labelmap.                     *)
(***************************************************************************)
\* zeros, then joined[isin(observed, where(solution == label))] = label for every model label
JoinedByLabel(sol) ==
    Array([v \in Voxels |->
        IF /\ observed_labelmap_data[v] \in DOMAIN sol
           /\ sol[observed_labelmap_data[v]] \in DOMAIN model_graph.vertices
        THEN sol[observed_labelmap_data[v]] ELSE 0])

\* a joined labelmap left at np.zeros_like(observed_labelmap_data)
JoinedZeros(sol) == Array([v \in Voxels |-> 0])

\* zeros, then joined[observed == element] = prediction for every element of the solution
JoinedByElement(sol) ==
    Array([v \in Voxels |->
        IF observed_labelmap_data[v] \in DOMAIN sol
        THEN sol[observed_labelmap_data[v]] ELSE 0])

\* a working labelmap that carries the prediction at every voxel
WorkingLabelmapFilled(joined, super_vertex, prediction) ==
    Array([v \in Voxels |-> prediction])

\* deepcopy(joined); working[observed == super_vertex] = prediction
WorkingLabelmap(joined, super_vertex, prediction) ==
    Array([v \in Voxels |->
              IF observed_labelmap_data[v] = super_vertex THEN prediction ELSE joined[v]])

\* build_graph(..., target_vertices=model size) followed by normalize_graph
TargetGraph(labelmap) ==
    Value({normalize_graph(graph, statistics) :
           graph \in {Value({build_graph(observation_volume, working, TRUE, << ModelSize >>) :
                                working \in {labelmap}})}})

\* the statistics arrays after the normalize_graph call of TargetGraph: the
\* graph has ModelSize * ModelSize edges
TargetStatistics == normalize_statistics(ModelSize * ModelSize > 0, statistics)

\* the scalar cost of a graph; edge weights << >> are compute_edge_cost's default
GraphCost(graph, weights) ==
    Value({GlobalCost(vertex_costs, edge_costs, graph_weights) :
           vertex_costs \in {compute_vertex_cost(graph.vertices, model_graph.vertices,
                                                 vertex_weights)},
           edge_costs \in {compute_edge_cost(graph.edges, model_graph.edges, weights)}})

\* potential_cost of the trial that gives the super vertex the prediction
PotentialCost(super_vertex, prediction) ==
    Value({GraphCost(potential_graph, << >>) :
           potential_graph \in {TargetGraph(WorkingLabelmap(joined_labelmap_data,
                                                            super_vertex, prediction))}})

\* candidates drawn from every model label instead of the neighbours' labels
PotentialPredictionsAnyLabel(super_vertex) == DOMAIN model_graph.vertices

\* set([solution[neighbour] for neighbour in super_adjacency.adj[super_vertex].keys()])
PotentialPredictions(super_vertex) ==
    {solution[neighbour] : neighbour \in super_adjacency[super_vertex]}

(***************************************************************************)
(* Step 6 of full2d: contiguity detection and repair.                      *)
(***************************************************************************)
\* the connected components of the voxels whose super-region holds the label
PotentialRegions(sol, l) ==
    Value({ndi_label(mask) :
           mask \in {Array([v \in Voxels |->
                              observed_labelmap_data[v] \in {r \in DOMAIN sol : sol[r] = l}])}})

\* a marking that keeps the first component met by the scan, whatever its cost
MarkAllButFirst(sol, l, potential) ==
    Value({Array([r \in DOMAIN sol |->
                    IF r \in correct_vertexes THEN l
                    ELSE IF sol[r] = l THEN UNASSIGNED
                    ELSE sol[r]]) :
        correct_vertexes \in {{observed_labelmap_data[v] : v \in {u \in Voxels : potential.map[u] = 1}}}})

\* the solution after the component nearest to the model vertex has kept the
\* label and the label's other super-regions have been marked
MarkNonContiguous(sol, l, potential) ==
    Value({Array([r \in DOMAIN sol |->
                    IF r \in correct_vertexes THEN l
                    ELSE IF sol[r] = l THEN UNASSIGNED
                    ELSE sol[r]]) :
        correct_vertexes \in {Value({
            {observed_labelmap_data[v] : v \in {u \in Voxels : potential.map[u] = actual_region}} :
            actual_region \in {Value({
                Value({ArgMin(tail) : tail \in {Array([i \in 0 .. (Rows(costs) - 2) |->
                                                         costs[i + 1]])}}) + 1 :
                costs \in {Value({
                    Value({compute_initial_vertex_cost(graph.vertices, repeated, initial_weights) :
                           repeated \in {Array([i \in DOMAIN graph.vertices |->
                                                   model_graph.vertices[l]])}}) :
                    graph \in {Value({normalize_graph(potential_graph, statistics) :
                        potential_graph \in {build_graph(observation_volume, potential.map,
                                                         FALSE, << >>)}})}})}})}})}})

\* the detection of one label, given the components of its voxels
DetectLabel(potential) ==
    IF potential.count = 1
    THEN /\ solution' = solution
         /\ pc' = IF label + 1 < ModelSize THEN "detect" ELSE "repair_while"
    ELSE IF potential.count = 0
    \* costs[1:] is empty and np.argmin raises ValueError
    THEN /\ solution' = solution
         /\ pc' = "crashed"
    ELSE /\ solution' = MarkNonContiguous(solution, label, potential)
         /\ pc' = IF label + 1 < ModelSize THEN "detect" ELSE "repair_while"

\* one iteration of "for label, model_vertex in enumerate(model_graph.vertices)"
DetectContiguity ==
    /\ pc = "detect"
    /\ \E potential \in {PotentialRegions(solution, label)} :
          /\ DetectLabel(potential)
          \* the components' graph, built without edges, is normalised unless count = 1
          /\ statistics' = IF potential.count = 1 THEN statistics
                            ELSE normalize_statistics(FALSE, statistics)
    /\ label' = label + 1
    /\ UNCHANGED << inputs, graphs, solution_costs, joined_labelmap_data, observation_graph,
                    visit_order, total_epochs, epoch, attempt >>

\* "while -1 in solution": a sweep starts from the joined labelmap and the sorted regions
RepairWhile ==
    /\ pc = "repair_while"
    /\ \E r \in DOMAIN solution : solution[r] = UNASSIGNED
    /\ joined_labelmap_data' = JoinedByLabel(solution)
    /\ visit_order' = SortedDescending(solution_costs)
    /\ pc' = "repair_for"
    /\ UNCHANGED << inputs, graphs, statistics, solution, solution_costs, observation_graph,
                    label, total_epochs, epoch, attempt >>

\* potential_cost of every candidate the loop over the super vertex's set can evaluate
PotentialCosts(super_vertex) ==
    Array([prediction \in PotentialPredictions(super_vertex) \ {UNASSIGNED}
              |-> PotentialCost(super_vertex, prediction)])

\* a candidate loop that accepts nothing
RepairCandidatesKeep(order, i, potential_costs, current) == current

RECURSIVE RepairCandidates(_, _, _, _)
\* the candidate loop of the repair, iterating the candidate set in the given order
RepairCandidates(order, i, potential_costs, current) ==
    IF i > Len(order) THEN current
    ELSE IF order[i] = current.prediction \/ order[i] = UNASSIGNED
         THEN RepairCandidates(order, i + 1, potential_costs, current)
         ELSE IF FLt(potential_costs[order[i]], current.cost)
              THEN RepairCandidates(order, i + 1, potential_costs,
                       [prediction |-> order[i], cost |-> potential_costs[order[i]]])
              ELSE RepairCandidates(order, i + 1, potential_costs, current)

\* an assignment written to the super-region after the one attempted
AssignNext(super_vertex, best) ==
    /\ solution' = [solution EXCEPT ![(super_vertex + 1) % Rows(solution)] = best.prediction]
    /\ super_vertex_index' = super_vertex
    /\ current_prediction_index' = best.prediction
    /\ current_cost' = best.cost

\* the end of an attempt: solution[super_vertex_index] = current_prediction_index
Assign(super_vertex, best) ==
    /\ solution' = [solution EXCEPT ![super_vertex] = best.prediction]
    /\ super_vertex_index' = super_vertex
    /\ current_prediction_index' = best.prediction
    /\ current_cost' = best.cost

\* a sweep that works on every region of the sorted list, assigned or not
RepairVisitEvery ==
    /\ pc = "repair_for"
    /\ visit_order # << >>
    /\ \E potential_costs \in {PotentialCosts(Head(visit_order))} :
          /\ \E order \in IterationOrders(PotentialPredictions(Head(visit_order))) :
                \E best \in {RepairCandidates(order, 1, potential_costs,
                                 [prediction |-> solution[Head(visit_order)], cost |-> PInf])} :
                   Assign(Head(visit_order), best)
          /\ statistics' = IF DOMAIN potential_costs = {} THEN statistics
                            ELSE TargetStatistics
    /\ visit_order' = Tail(visit_order)
    /\ pc' = IF Tail(visit_order) = << >> THEN "repair_while" ELSE "repair_for"
    /\ UNCHANGED << inputs, graphs, solution_costs, joined_labelmap_data, observation_graph,
                    label, total_epochs, epoch >>

\* one iteration of the sweep's for loop: one region of the sorted list
RepairVisit ==
    /\ pc = "repair_for"
    /\ visit_order # << >>
    /\ IF solution[Head(visit_order)] > UNASSIGNED
       THEN UNCHANGED << solution, attempt, statistics >>
       ELSE \E potential_costs \in {PotentialCosts(Head(visit_order))} :
               /\ \E order \in IterationOrders(PotentialPredictions(Head(visit_order))) :
                     \E best \in {RepairCandidates(order, 1, potential_costs,
                                      [prediction |-> solution[Head(visit_order)], cost |-> PInf])} :
                        Assign(Head(visit_order), best)
               \* every candidate evaluated has its working graph normalised
               /\ statistics' = IF DOMAIN potential_costs = {} THEN statistics
                                 ELSE TargetStatistics
    /\ visit_order' = Tail(visit_order)
    /\ pc' = IF Tail(visit_order) = << >> THEN "repair_while" ELSE "repair_for"
    /\ UNCHANGED << inputs, graphs, solution_costs, joined_labelmap_data, observation_graph,
                    label, total_epochs, epoch >>

\* a repair that ends after a sweep whether or not a region is still UNASSIGNED
EndOfContiguityEarly ==
    /\ pc = "repair_while"
    /\ \E joined \in {JoinedByLabel(solution)} :
          /\ joined_labelmap_data' = joined
          /\ observation_graph' = TargetGraph(joined)
          /\ statistics' = TargetStatistics
    /\ pc' = "joining"
    /\ UNCHANGED << inputs, graphs, solution, solution_costs, label, visit_order,
                    total_epochs, epoch, attempt >>

\* after the while loop: the joined labelmap and graph of the contiguous solution
EndOfContiguity ==
    /\ pc = "repair_while"
    /\ \A r \in DOMAIN solution : solution[r] # UNASSIGNED
    /\ \E joined \in {JoinedByLabel(solution)} :
          /\ joined_labelmap_data' = joined
          /\ observation_graph' = TargetGraph(joined)
          /\ statistics' = TargetStatistics
    /\ pc' = "joining"
    /\ UNCHANGED << inputs, graphs, solution, solution_costs, label, visit_order,
                    total_epochs, epoch, attempt >>

(***************************************************************************)
(* Region joining and Step 7, the improvement loop.                        *)
(***************************************************************************)
\* Region Joining, then total_epochs of Step 7
RegionJoining ==
    /\ pc = "joining"
    /\ \E joined \in {JoinedByElement(solution)} :
          /\ joined_labelmap_data' = joined
          /\ observation_graph' = TargetGraph(joined)
          /\ statistics' = TargetStatistics
    /\ total_epochs' = IF script = "full2d" THEN Rows(solution) \div 2 ELSE CalibrationEpochs
    /\ epoch' = 0
    /\ pc' = IF total_epochs' > 0 THEN "improve" ELSE "done"
    /\ UNCHANGED << inputs, graphs, solution, solution_costs, label, visit_order, attempt >>

\* the super vertex an epoch works on (improvement_cutoff = 1)
SelectedSuperVertex ==
    IF script = "full2d" THEN ArgMax(solution_costs)
    ELSE Value({sorted[1] : sorted \in {SortedDescending(solution_costs)}})

\* current_cost at the start of an attempt
CurrentCost == GraphCost(observation_graph, edge_weights)

RECURSIVE ImproveCandidates(_, _, _, _)
\* the candidate loop of the improvement, iterating the candidate set in the given order
ImproveCandidates(order, i, potential_costs, current) ==
    IF i > Len(order) THEN current
    ELSE IF order[i] = current.prediction
         THEN ImproveCandidates(order, i + 1, potential_costs, current)
         ELSE IF FLt(potential_costs[order[i]], current.cost)
              THEN ImproveCandidates(order, i + 1, potential_costs,
                       [prediction |-> order[i], cost |-> potential_costs[order[i]]])
              ELSE ImproveCandidates(order, i + 1, potential_costs, current)

\* the attempt on one super vertex, given the candidates' costs and the current cost
AttemptOn(super_vertex, potential_costs, cost) ==
    \E order \in IterationOrders(PotentialPredictions(super_vertex)) :
        \E best \in {ImproveCandidates(order, 1, potential_costs,
                         [prediction |-> solution[super_vertex], cost |-> cost])} :
           Assign(super_vertex, best)

\* an attempt that resets the priority cost only when it has replaced the label
AttemptResetOnReplace ==
    /\ pc = "improve"
    /\ epoch < MaxEpochs
    /\ \E super_vertex \in {SelectedSuperVertex} :
          /\ \E cost \in {CurrentCost} :
                \E potential_costs \in {PotentialCosts(super_vertex)} :
                   /\ AttemptOn(super_vertex, potential_costs, cost)
                   /\ statistics' = IF DOMAIN potential_costs \ {solution[super_vertex]} = {}
                                     THEN statistics ELSE TargetStatistics
          /\ solution_costs' = IF solution'[super_vertex] = solution[super_vertex]
                                THEN solution_costs
                                ELSE [solution_costs EXCEPT ![super_vertex] = 0]
    /\ pc' = "epoch_end"
    /\ UNCHANGED << inputs, graphs, joined_labelmap_data, observation_graph, label,
                    visit_order, total_epochs, epoch >>

\* the body of the epoch's inner loop: one attempt on the selected super vertex
Attempt ==
    /\ pc = "improve"
    /\ epoch < MaxEpochs
    /\ \E super_vertex \in {SelectedSuperVertex} :
          /\ \E cost \in {CurrentCost} :
                \E potential_costs \in {PotentialCosts(super_vertex)} :
                   /\ AttemptOn(super_vertex, potential_costs, cost)
                   \* every candidate evaluated has its working graph normalised
                   /\ statistics' = IF DOMAIN potential_costs \ {solution[super_vertex]} = {}
                                     THEN statistics ELSE TargetStatistics
          /\ solution_costs' = [solution_costs EXCEPT ![super_vertex] = 0]
    /\ pc' = "epoch_end"
    /\ UNCHANGED << inputs, graphs, joined_labelmap_data, observation_graph, label,
                    visit_order, total_epochs, epoch >>

\* end of an epoch: the joined labelmap and the observation graph are rebuilt
EndOfEpoch ==
    /\ pc = "epoch_end"
    /\ \E joined \in {JoinedByElement(solution)} :
          /\ joined_labelmap_data' = joined
          /\ observation_graph' = TargetGraph(joined)
          /\ statistics' = TargetStatistics
    /\ epoch' = epoch + 1
    /\ pc' = IF epoch + 1 < total_epochs THEN "improve" ELSE "done"
    /\ UNCHANGED << inputs, graphs, solution, solution_costs, label, visit_order,
                    total_epochs, attempt >>

Next ==
    \/ GenerateModelGraph
    \/ GenerateSuperGraph
    \/ GenerateInitialSolution
    \/ DetectContiguity
    \/ RepairWhile
    \/ RepairVisit
    \/ EndOfContiguity
    \/ RegionJoining
    \/ Attempt
    \/ EndOfEpoch

Spec == Init /\ [][Next]_vars

\* the script runs on: no step that can be taken is postponed forever
FairSpec == Spec /\ WF_vars(Next)

(***************************************************************************)
(* Properties of the improvement loop.  Between the attempt and the end of *)
(* its epoch (pc = "epoch_end") joined_labelmap_data and observation_graph *)
(* still describe the assignment the attempt started from.                 *)
(***************************************************************************)
\* the label the attempted super vertex held when the attempt started
PreviousPrediction ==
    joined_labelmap_data[CHOOSE v \in Voxels : observed_labelmap_data[v] = super_vertex_index]

\* the attempt of this epoch has changed the label of its super vertex
AttemptChanged == pc = "epoch_end" /\ solution[super_vertex_index] # PreviousPrediction

\* the labels held by the spatial neighbours of the attempted super vertex
NeighbourLabels == {solution[n] : n \in super_adjacency[super_vertex_index]}

\* the global cost of a joined labelmap under the script's weight tuples
AssignmentCost(labelmap) == GraphCost(TargetGraph(labelmap), edge_weights)

\* the global cost of the assignment in which the attempted super vertex holds p
CandidateCost(p) ==
    AssignmentCost(WorkingLabelmap(joined_labelmap_data, super_vertex_index, p))

\* C1: in the improvement loop the selected super-region's label is replaced
\* by the lowest-cost candidate only if that candidate's global cost is
\* strictly lower than the current global cost; when no candidate is strictly
\* lower (equal cost included) the super-region keeps its label.
C1_StrictlyLowerOrKeep ==
    pc = "epoch_end" =>
        /\ AttemptChanged =>
              /\ FLt(CandidateCost(solution[super_vertex_index]), CurrentCost)
              /\ \A p \in NeighbourLabels \ {PreviousPrediction} :
                    ~FLt(CandidateCost(p), CandidateCost(solution[super_vertex_index]))
        /\ (\A p \in NeighbourLabels \ {PreviousPrediction} :
                ~FLt(CandidateCost(p), CurrentCost)) => ~AttemptChanged

\* C1 on calibration.py alone, where the candidates are costed with the
\* weights of the current cost
C1_Calibration == script = "calibration" => C1_StrictlyLowerOrKeep

\* C2: the global cost of the assignment recomputed after an accepted
\* relabeling is never higher than the global cost of the assignment before it.
C2_MonotonicNonIncrease ==
    AttemptChanged => ~FLt(CurrentCost, AssignmentCost(JoinedByElement(solution)))

\* C2 on calibration.py alone
C2_Calibration == script = "calibration" => C2_MonotonicNonIncrease

\* C3: whenever the improvement loop changes a super-region's label, the new
\* label is held at that moment by a spatial neighbour of the super-region and
\* differs from the previous label; a label no neighbour holds is neither
\* evaluated nor assigned.
C3_SoftContiguity ==
    /\ AttemptChanged =>
          /\ \E n \in super_adjacency[super_vertex_index] :
                solution[n] = solution[super_vertex_index]
          /\ solution[super_vertex_index] # PreviousPrediction
    /\ pc = "improve" =>
          \A p \in DOMAIN PotentialCosts(SelectedSuperVertex) :
              \E n \in super_adjacency[SelectedSuperVertex] : solution[n] = p

\* a changed label that a neighbour holds, while another model label is held by no neighbour
C3_Witness ==
    /\ AttemptChanged
    /\ solution[super_vertex_index] \in NeighbourLabels
    /\ \E l \in DOMAIN model_graph.vertices : l \notin NeighbourLabels

RECURSIVE GrowRegions(_, _, _)
\* the super-regions holding the label that the adjacency index links to those of S
GrowRegions(sol, l, S) ==
    LET more == {r \in DOMAIN sol : sol[r] = l /\ r \notin S
                                     /\ \E q \in S : r \in super_adjacency[q]}
    IN IF more = {} THEN S ELSE GrowRegions(sol, l, S \cup more)

\* the super-regions holding the label are none, or one component of the adjacency index
OneComponent(sol, l) ==
    \/ \A r \in DOMAIN sol : sol[r] # l
    \/ GrowRegions(sol, l, {MinOf({r \in DOMAIN sol : sol[r] = l})})
          = {r \in DOMAIN sol : sol[r] = l}

\* C4: once contiguity repair has finished, every reference label's
\* super-regions in the output are empty or form exactly one connected component.
C4_ConnectedOutput ==
    (script = "full2d" /\ pc = "done") =>
        \A l \in DOMAIN model_graph.vertices : OneComponent(solution, l)

(***************************************************************************)
(* Termination of the contiguity repair and of the improvement loop.       *)
(***************************************************************************)
\* the repair sweep is about to visit an UNASSIGNED super vertex none of whose
\* neighbours holds a valid label
IsolatedVisit ==
    /\ pc = "repair_for"
    /\ solution[Head(visit_order)] = UNASSIGNED
    /\ \A n \in super_adjacency[Head(visit_order)] : solution[n] = UNASSIGNED

AttemptKept == pc = "epoch_end" /\ solution[super_vertex_index] = PreviousPrediction

\* C6: the improvement loop ends as soon as the epoch budget is exhausted or an
\* epoch has completed in which no super-region changed label: after such an
\* epoch the loop has ended and no further epoch is executed.
C6_StopsOnZeroChange ==
    [][pc = "epoch_end" => pc' = (IF AttemptKept \/ epoch + 1 >= total_epochs
                                  THEN "done" ELSE "improve")]_vars

\* an epoch has changed no label and the budget is not exhausted
C6_Witness == AttemptKept /\ epoch + 1 < total_epochs

(***************************************************************************)
(* The initial solution.                                                   *)
(***************************************************************************)
\* the initial solution has just been generated
JustInitialised ==
    \/ script = "full2d" /\ pc = "detect" /\ label = 0
    \/ script = "calibration" /\ pc = "joining"

\* the initial vertex cost (size excluded) of super-region i to reference label l
InitialCostTo(i, l) ==
    WeightedDistance(super_graph.vertices[i], model_graph.vertices[l], initial_weights)

\* the attributes of the reference labels and of the super-regions before normalisation
RawModelVertices == build_graph(model_volume, model_labelmap, TRUE, << >>).vertices
RawSuperVertices == build_graph(observation_volume, observed_labelmap_data, FALSE, << >>).vertices

\* centroid and mean intensity of super-region i equal those of reference label l
ExactMatch(i, l) ==
    \E model \in {RawModelVertices} : \E super \in {RawSuperVertices} :
        \A k \in 1 .. 4 : super[i][k] = model[l][k]

\* centroid and mean intensity of i equal those of l and of no other reference label
OnlyExactMatch(i, l) ==
    /\ ExactMatch(i, l)
    /\ \A other \in DOMAIN model_graph.vertices : other # l => ~ExactMatch(i, other)

\* reference labels l and other coincide on every attribute the initial weights count
SameWeightedAttributes(l, other) ==
    \E model \in {RawModelVertices} :
        \A k \in 1 .. 4 : initial_weights[k] > 0 => model[l][k] = model[other][k]

\* super-region i holds the first label of minimum initial cost and that cost
\* is its priority cost
ArgMinRecorded(i) ==
    /\ solution[i] \in DOMAIN model_graph.vertices
    /\ \A l \in DOMAIN model_graph.vertices :
          /\ ~FLt(InitialCostTo(i, l), InitialCostTo(i, solution[i]))
          /\ l < solution[i] => FLt(InitialCostTo(i, solution[i]), InitialCostTo(i, l))
    /\ solution_costs[i] = InitialCostTo(i, solution[i])

\* C7 (as the code behaves): initialization assigns to every super-region the
\* lowest-indexed reference label of minimum initial vertex cost (size
\* excluded) and records that minimum as the priority cost; a super-region
\* whose centroid and mean intensity equal those of a reference label has
\* priority cost 0 and receives the lowest-indexed label at cost 0, which is
\* that label when no lower-indexed label coincides with it on every
\* attribute that the initial weights count.
C7_InitialArgMin ==
    JustInitialised =>
        \A i \in DOMAIN solution :
            /\ ArgMinRecorded(i)
            /\ \A l \in DOMAIN model_graph.vertices :
                  ExactMatch(i, l) =>
                      /\ InitialCostTo(i, l) = 0
                      /\ solution_costs[i] = 0
                      /\ solution[i] <= l
                      /\ (\A other \in 0 .. (l - 1) : ~SameWeightedAttributes(l, other))
                             => solution[i] = l

\* a super-region equal to exactly one reference label has received a
\* lower-indexed label at cost 0
C7_Witness ==
    /\ JustInitialised
    /\ \E i \in DOMAIN solution : \E l \in DOMAIN model_graph.vertices :
          OnlyExactMatch(i, l) /\ solution[i] < l /\ solution_costs[i] = 0

\* C7 (as stated): initialization assigns the arg-min label and records the
\* minimum cost, and a super-region whose centroid and mean intensity equal
\* those of exactly one reference label receives that label with priority cost 0.
C7_ExactMatchRecovered ==
    JustInitialised =>
        \A i \in DOMAIN solution :
            /\ ArgMinRecorded(i)
            /\ \A l \in DOMAIN model_graph.vertices :
                  OnlyExactMatch(i, l) => solution[i] = l /\ solution_costs[i] = 0

(***************************************************************************)
(* Determinism.                                                            *)
(***************************************************************************)
\* the labels the improvement attempt on super_vertex can end with, one per
\* iteration order of the candidate set
ImproveOutcomes(super_vertex, potential_costs, cost) ==
    {ImproveCandidates(order, 1, potential_costs,
                       [prediction |-> solution[super_vertex], cost |-> cost]).prediction :
        order \in IterationOrders(PotentialPredictions(super_vertex))}

\* the labels the repair visit of super_vertex can end with
RepairOutcomes(super_vertex, potential_costs) ==
    {RepairCandidates(order, 1, potential_costs,
                      [prediction |-> solution[super_vertex], cost |-> PInf]).prediction :
        order \in IterationOrders(PotentialPredictions(super_vertex))}

\* C8: the assignment after every epoch and after every repair visit is
\* determined by the inputs: it does not depend on the order in which the
\* candidate-label set is iterated, ties included.
C8_OrderIndependent ==
    /\ (pc = "improve" /\ epoch < MaxEpochs) =>
          Cardinality(ImproveOutcomes(SelectedSuperVertex,
                                      PotentialCosts(SelectedSuperVertex), CurrentCost)) = 1
    /\ (pc = "repair_for" /\ solution[Head(visit_order)] = UNASSIGNED) =>
          Cardinality(RepairOutcomes(Head(visit_order),
                                     PotentialCosts(Head(visit_order)))) = 1

(***************************************************************************)
(* build_graph with a target size.                                         *)
(***************************************************************************)
\* centroid, mean intensity and voxel count of label l, computed from its voxels
DirectVertex(volume, labelmap, l) ==
    Value({<< Div(SumWhere(labelmap, l, [v \in Voxels |-> Coord(v)[1]], 0) * SCALE, count),
              Div(SumWhere(labelmap, l, [v \in Voxels |-> Coord(v)[2]], 0) * SCALE, count),
              Div(SumWhere(labelmap, l, [v \in Voxels |-> Coord(v)[3]], 0) * SCALE, count),
              Div(SumWhere(labelmap, l, volume, 0) * SCALE, count),
              count * SCALE >> :
           count \in {Cardinality({v \in Voxels : labelmap[v] = l})}})

\* the trial labelmaps the attempt of this epoch has built graphs of
TrialLabelmaps ==
    IF pc = "epoch_end"
    THEN {WorkingLabelmap(joined_labelmap_data, super_vertex_index, p) : p \in NeighbourLabels}
    ELSE {}

\* the labelmaps new in this state: the reference labelmap at the start, the
\* joined labelmap when it has been rebuilt, and the trial labelmaps
StateLabelmaps ==
    (IF pc = "step2" THEN {model_labelmap} ELSE {})
    \cup (IF pc \in {"repair_for", "joining", "improve", "done"} /\ joined_labelmap_data # << >>
          THEN {joined_labelmap_data} ELSE {})
    \cup TrialLabelmaps

\* the target sizes tried: up to one more than the number of labels
TargetSizes == 1 .. (MaxLabel + 2)

\* vertex l of the graph is the vertex of label l, or the sentinel when l is absent
VertexOfLabel(vertices, volume, labelmap, l) ==
    IF \E v \in Voxels : labelmap[v] = l
    THEN vertices[l] = DirectVertex(volume, labelmap, l)
    ELSE vertices[l] = << PInf, PInf, PInf, PInf, PInf >>

\* C9: build_graph with target size T returns exactly T vertices; vertex L is
\* the centroid, mean intensity and voxel count of label L when L occurs in the
\* labelmap and +infinity in all five attributes when it does not, whatever
\* subset of 0..T-1 is present.
C9_TargetVertices ==
    \A labelmap \in StateLabelmaps : \A T \in TargetSizes :
        \E graph \in {build_graph(observation_volume, labelmap, FALSE, << T >>)} :
            /\ DOMAIN graph.vertices = 0 .. (T - 1)
            /\ \A l \in 0 .. (T - 1) :
                  VertexOfLabel(graph.vertices, observation_volume, labelmap, l)

\* a target-sized graph has been built of a trial labelmap that lacks label 0
\* and holds two higher labels
C9_Witness ==
    \E trial \in TrialLabelmaps :
        /\ \A v \in Voxels : trial[v] # 0
        /\ \E v \in Voxels : trial[v] = 1
        /\ \E v \in Voxels : trial[v] = 2

(***************************************************************************)
(* Sentinel safety.                                                        *)
(***************************************************************************)
\* the target-sized graph of the labelmap has a sentinel vertex: a reference
\* label has no voxel
SentinelBearing(labelmap) ==
    \E l \in DOMAIN model_graph.vertices : \A v \in Voxels : labelmap[v] # l

\* the trial labelmap that gives the super vertex of this attempt the label p
Trial(p) == WorkingLabelmap(joined_labelmap_data, super_vertex_index, p)

\* the trial labelmap that gives the super vertex the repair visits next the label p
RepairTrial(p) == WorkingLabelmap(joined_labelmap_data, Head(visit_order), p)

\* every option of the attempt that has no sentinel has a non-finite cost: the
\* current graph at the current cost and the candidates' graphs at theirs
NoFiniteRealOption ==
    /\ ~SentinelBearing(joined_labelmap_data) => ~IsFinite(CurrentCost)
    /\ \A p \in NeighbourLabels :
          ~SentinelBearing(Trial(p)) => ~IsFinite(PotentialCost(super_vertex_index, p))

\* C10: sentinel safety.  The option an attempt selects among the current graph
\* and the candidate graphs bears a sentinel vertex only if every option
\* without a sentinel has a non-finite cost; a candidate graph with a sentinel
\* has a non-finite cost and is never accepted.  The same holds for the
\* candidates of a repair visit, in every iteration order.
C10_SentinelSafety ==
    /\ pc = "epoch_end" =>
          /\ SentinelBearing(Trial(solution[super_vertex_index])) => NoFiniteRealOption
          /\ \A p \in NeighbourLabels :
                SentinelBearing(Trial(p)) => ~IsFinite(PotentialCost(super_vertex_index, p))
          /\ AttemptChanged => ~SentinelBearing(Trial(solution[super_vertex_index]))
    /\ (pc = "repair_for" /\ solution[Head(visit_order)] = UNASSIGNED) =>
          \E potential_costs \in {PotentialCosts(Head(visit_order))} :
             \A chosen \in RepairOutcomes(Head(visit_order), potential_costs) :
                (chosen # UNASSIGNED /\ SentinelBearing(RepairTrial(chosen))) =>
                    \A p \in DOMAIN potential_costs :
                        ~SentinelBearing(RepairTrial(p)) => ~IsFinite(potential_costs[p])

\* an attempt has weighed a candidate graph with a sentinel against a current
\* graph without sentinel and of finite cost
C10_Witness ==
    /\ pc = "epoch_end"
    /\ ~SentinelBearing(joined_labelmap_data)
    /\ IsFinite(CurrentCost)
    /\ \E p \in NeighbourLabels : SentinelBearing(Trial(p))

(***************************************************************************)
(* Normalisation.                                                          *)
(***************************************************************************)
\* the reference graph before normalisation
RawModelGraph == build_graph(model_volume, model_labelmap, TRUE, << >>)

\* C11: the normalization statistics (vertex mean/std, edge mean/std) are
\* fitted once, from the reference graph, and every later normalization of a
\* super-region, component, joined or trial graph is given those values and
\* leaves them unchanged: after any sequence of normalize calls the four
\* statistics equal the values returned by the fit.
C11_StatisticsFixed ==
    pc # "step2" => statistics = fit_statistics(RawModelGraph)

\* the pipeline has run to its end on a reference graph with a constant vertex
\* attribute and a constant edge attribute, whose fitted deviations are 1
C11_Witness ==
    /\ pc = "done" /\ epoch >= 2
    /\ \E raw \in {RawModelGraph} :
          /\ \E d \in 1 .. 5 : ColStd(raw.vertices, d) = 0 /\ statistics.std_vertex[d] = SCALE
          /\ \E d \in 1 .. 5 : ColStd(raw.edges, d) = 0 /\ statistics.std_edge[d] = SCALE

\* every value of the matrix rows given is finite
FiniteRows(matrix, rows) == \A i \in rows : \A d \in 1 .. 5 : IsFinite(matrix[i][d])

\* the divisors are not 0; a column of the raw matrix whose deviation is 0 is
\* divided by 1 and is 0 in the normalised matrix
ConstantColumnsToZero(raw, normalised, std) ==
    \A d \in 1 .. 5 :
        /\ std[d] # 0
        /\ ColStd(raw, d) = 0 =>
              /\ std[d] = SCALE
              /\ \A i \in DOMAIN normalised : normalised[i][d] = 0

\* the labels that have a voxel in the joined labelmap
PresentLabels == {l \in DOMAIN model_graph.vertices : \E v \in Voxels : joined_labelmap_data[v] = l}

\* C12: normalization never divides by zero: for every vertex or edge
\* dimension whose computed standard deviation is 0 the divisor used is 1, so
\* a constant attribute maps to (raw - mean) = 0, and no infinite or undefined
\* value results from the division: finite attributes stay finite.
C12_NoZeroDivisor ==
    pc # "step2" =>
        /\ \E raw \in {RawModelGraph} :
              /\ ConstantColumnsToZero(raw.vertices, model_graph.vertices, statistics.std_vertex)
              /\ ConstantColumnsToZero(raw.edges, model_graph.edges, statistics.std_edge)
        /\ FiniteRows(model_graph.vertices, DOMAIN model_graph.vertices)
        /\ FiniteRows(model_graph.edges, DOMAIN model_graph.edges)
        /\ pc # "step4" => FiniteRows(super_graph.vertices, DOMAIN super_graph.vertices)
        /\ observation_graph # << >> =>
              /\ FiniteRows(observation_graph.vertices, PresentLabels)
              /\ FiniteRows(observation_graph.edges,
                            {i * ModelSize + j : i \in PresentLabels, j \in PresentLabels})

\* a reference graph of several labels with a constant vertex attribute and a
\* constant edge attribute has been normalised, and so has a joined graph
C12_Witness ==
    /\ observation_graph # << >>
    /\ ModelSize >= 2
    /\ \E raw \in {RawModelGraph} :
          /\ \E d \in 1 .. 5 : ColStd(raw.vertices, d) = 0
          /\ \E d \in 1 .. 5 : ColStd(raw.edges, d) = 0

(***************************************************************************)
(* The output.                                                             *)
(***************************************************************************)
\* the joined labelmap is one the script shows as a result: the contiguous
\* solution, the joined initial solution, or the solution of an epoch
JoinedIsOutput ==
    \/ pc \in {"improve", "epoch_end", "done"}
    \/ pc = "joining" /\ script = "full2d"

\* C13: every value of the output joined labelmap is a label of the reference
\* label set 0..K-1: no voxel carries the UNASSIGNED sentinel -1 or a label
\* outside the set, and no super-region of the assignment behind it does,
\* after initialization, contiguity repair and any number of epochs.
C13_OutputLabels ==
    JoinedIsOutput =>
        /\ \A v \in Voxels : joined_labelmap_data[v] \in DOMAIN model_graph.vertices
        /\ \A r \in DOMAIN solution : solution[r] \in DOMAIN model_graph.vertices

\* the contiguous solution of a run whose repair has given a label to a
\* super-region that the detection had marked UNASSIGNED
C13_Witness ==
    /\ pc = "joining" /\ script = "full2d"
    /\ current_cost # 0
    /\ solution[super_vertex_index] = current_prediction_index
    /\ joined_labelmap_data[CHOOSE v \in Voxels : observed_labelmap_data[v] = super_vertex_index]
          = current_prediction_index

(***************************************************************************)
(* The global cost, label by label and pair by pair.                       *)
(***************************************************************************)
\* relative position, intensity contrast and size ratio of the pair of vertices
PairAttributes(vi, vj) ==
    << FSub(vi[1], vj[1]), FSub(vi[2], vj[2]), FSub(vi[3], vj[3]),
       FAbs(FSub(vi[4], vj[4])), FDiv(vi[5], vj[5]) >>

\* one row standardised with the fitted mean and deviation
NormalisedRow(row, mean, std) == Array([d \in 1 .. 5 |-> FDiv(FSub(row[d], mean[d]), std[d])])

\* the cost of reference label l in the assignment whose raw vertices are given
LabelCost(raw, l) ==
    WeightedDistance(NormalisedRow(raw[l], statistics.mean_vertex, statistics.std_vertex),
                     model_graph.vertices[l], vertex_weights)

\* the cost of the ordered pair (i, j) against the reference pair (i, j)
PairCost(raw, reference, i, j, weights) ==
    WeightedDistance(
        NormalisedRow(PairAttributes(raw[i], raw[j]), statistics.mean_edge, statistics.std_edge),
        NormalisedRow(PairAttributes(reference[i], reference[j]),
                      statistics.mean_edge, statistics.std_edge),
        weights)

\* graph_weights[0] * mean of the label costs + graph_weights[1] * mean of the
\* pair costs of the assignment the labelmap describes; the pairs are
\* enumerated j first
DirectCost(labelmap, weights) ==
    Value({
        Value({FAdd(FMul(graph_weights[1] * SCALE, FMean(label_costs, ModelSize)),
                    FMul(graph_weights[2] * SCALE, FMean(pair_costs, ModelSize * ModelSize))) :
            label_costs \in {Array([l \in 0 .. (ModelSize - 1) |-> LabelCost(raw, l)])},
            pair_costs \in {Array([e \in 0 .. (ModelSize * ModelSize - 1) |->
                                PairCost(raw, reference, e % ModelSize, e \div ModelSize,
                                         weights)])}})
        : raw \in {build_graph(observation_volume, labelmap, FALSE, << ModelSize >>).vertices},
          reference \in {RawModelGraph.vertices}})

\* C14: the global cost of an assignment is graph_weight[0] times the mean of
\* the vertex costs over all reference labels plus graph_weight[1] times the
\* mean of the edge costs over all ordered label pairs (i, j) of the joined
\* graph against the reference graph, every pair being compared with the
\* reference pair of the same (i, j); this holds of the current cost and of
\* every candidate's cost, each with the edge weights its computation passes.
C14_GlobalCostFormula ==
    (pc = "improve" /\ epoch < MaxEpochs) =>
        /\ CurrentCost = DirectCost(joined_labelmap_data, edge_weights)
        /\ \E potential_costs \in {PotentialCosts(SelectedSuperVertex)} :
              \A p \in DOMAIN potential_costs :
                  potential_costs[p] =
                      DirectCost(WorkingLabelmap(joined_labelmap_data, SelectedSuperVertex, p),
                                 Ones(5))

\* an attempt on a reference of three labels starts from a finite positive
\* current cost and has a candidate of a different finite cost
C14_Witness ==
    /\ pc = "improve" /\ epoch < MaxEpochs
    /\ ModelSize = 3
    /\ \E cost \in {CurrentCost} :
          /\ IsFinite(cost) /\ cost > 0
          /\ \E p \in PotentialPredictions(SelectedSuperVertex) :
                \E potential \in {PotentialCost(SelectedSuperVertex, p)} :
                    IsFinite(potential) /\ potential # cost

(***************************************************************************)
(* The relational attributes.                                              *)
(***************************************************************************)
\* the graphs with edges built in this state, before normalisation: the
\* reference graph at the start, the joined graph when the joined labelmap
\* has been rebuilt, and the graphs of the trial labelmaps
BuiltGraphs ==
    (IF pc = "step2" THEN {RawModelGraph} ELSE {})
    \cup {build_graph(observation_volume, labelmap, TRUE, << ModelSize >>) :
             labelmap \in (IF pc \in {"joining", "improve", "done"} /\ joined_labelmap_data # << >>
                           THEN {joined_labelmap_data} ELSE {}) \cup TrialLabelmaps}

\* the vertex is the vertex of a label that has voxels, not the sentinel
RealVertex(vertex) == \A d \in 1 .. 5 : IsFinite(vertex[d])

\* a = b as floats: NaN equals nothing
FEq(a, b) == ~IsNaN(a) /\ ~IsNaN(b) /\ a = b

\* the product of the two ratios is 1 up to the rounding of the two
\* divisions and of the product
RoundsToOne(ratio, inverse) ==
    /\ IsFinite(ratio) /\ IsFinite(inverse)
    /\ Abs(FMul(ratio, inverse) - SCALE) * SCALE <= ratio + inverse + SCALE

\* row i*K+j of every built graph holds the attributes of the pair (i, j)
EdgeRowsHoldPairs ==
    \A graph \in BuiltGraphs :
        \E K \in {Rows(graph.vertices)} :
            /\ DOMAIN graph.edges = 0 .. (K * K - 1)
            /\ \A i, j \in 0 .. (K - 1) :
                  graph.edges[i * K + j] = PairAttributes(graph.vertices[i], graph.vertices[j])

\* C15 (as the code behaves): for every ordered pair (i, j) of a graph built
\* with edges, row i*K + j of the edge matrix holds centroid_i - centroid_j,
\* |intensity_i - intensity_j| and size_i / size_j as floating-point values;
\* for two labels that have voxels the relative position is the negation of
\* that of (j, i), the contrast equals that of (j, i), and the product of the
\* two size ratios is 1 up to rounding.  A pair with the sentinel vertex of an
\* absent label holds infinities or NaN, for which the relations do not hold.
C15_EdgeAttributes ==
    /\ EdgeRowsHoldPairs
    /\ \A graph \in BuiltGraphs :
          \E K \in {Rows(graph.vertices)} :
             \A i, j \in 0 .. (K - 1) :
                 (RealVertex(graph.vertices[i]) /\ RealVertex(graph.vertices[j])) =>
                     \E forward \in {graph.edges[i * K + j]} :
                        \E backward \in {graph.edges[j * K + i]} :
                           /\ \A d \in 1 .. 3 : FEq(forward[d], FNeg(backward[d]))
                           /\ FEq(forward[4], backward[4])
                           /\ RoundsToOne(forward[5], backward[5])

\* a graph has been built that has a sentinel vertex and two labels of
\* different sizes
C15_Witness ==
    \E graph \in BuiltGraphs :
        /\ \E l \in DOMAIN graph.vertices : ~RealVertex(graph.vertices[l])
        /\ \E i, j \in DOMAIN graph.vertices :
              /\ RealVertex(graph.vertices[i]) /\ RealVertex(graph.vertices[j])
              /\ graph.vertices[i][5] # graph.vertices[j][5]

\* C15 (as stated): for every ordered pair of labels (i, j) of a graph built
\* with edges, the edge holds relative_position = centroid_i - centroid_j,
\* intensity_contrast = |intensity_i - intensity_j| and size_ratio =
\* size_i / size_j at position i*K + j, and relative_position(i,j) =
\* -relative_position(j,i), contrast(i,j) = contrast(j,i) and
\* size_ratio(i,j) * size_ratio(j,i) = 1.
C15_ExactRelations ==
    /\ EdgeRowsHoldPairs
    /\ \A graph \in BuiltGraphs :
          \E K \in {Rows(graph.vertices)} :
             \A i, j \in 0 .. (K - 1) :
                 \E forward \in {graph.edges[i * K + j]} :
                    \E backward \in {graph.edges[j * K + i]} :
                       /\ \A d \in 1 .. 3 : FEq(forward[d], FNeg(backward[d]))
                       /\ FEq(forward[4], backward[4])
                       /\ FEq(FMul(forward[5], backward[5]), SCALE)

(***************************************************************************)
(* build_graph on a volume and a labelmap of different shapes.  The        *)
(* scripts always pass arrays of one shape; here build_graph is called on  *)
(* its own, with a labelmap on the grid and volumes of several shapes.     *)
(* model_volume is the record of the volume's shape and its flattened      *)
(* data, pc is "call" before the call and "returned" or "raised" after.    *)
(***************************************************************************)
\* the shapes of the volumes passed: the labelmap's shape, shapes with the
\* same number of voxels, and shapes with fewer or more voxels
VolumeShapes == {Shape, << 2, 1, 3 >>, << 6, 1, 1 >>, << 1, 2, 3 >>, << 3, 1, 1 >>, << 3, 2, 2 >>}

\* the number of elements of an array of the shape: len(volume.flatten())
Size(shape) == shape[1] * shape[2] * shape[3]

\* a volume of the shape whose intensity rises along the flattened index
RampVolume(shape) == [shape |-> shape, data |-> [k \in 0 .. (Size(shape) - 1) |-> 1 + k]]

ShapeInit ==
    /\ script = "build_graph"
    /\ model_labelmap \in ModelLabelmaps
    /\ model_volume \in {RampVolume(shape) : shape \in VolumeShapes}
    /\ observation_volume = << >> /\ observed_labelmap_data = << >>
    /\ model_graph = << >> /\ statistics = << >>
    /\ super_graph = << >> /\ super_adjacency = << >>
    /\ solution = << >> /\ solution_costs = << >>
    /\ joined_labelmap_data = << >> /\ observation_graph = << >>
    /\ label = 0 /\ visit_order = << >>
    /\ total_epochs = 0 /\ epoch = 0
    /\ super_vertex_index = 0 /\ current_prediction_index = 0 /\ current_cost = 0
    /\ pc = "call"

\* volume.flatten()[indexes==i] raises IndexError when the boolean mask, as
\* long as the labelmap, and the flattened volume differ in length
IntensityIndexError(volume, labelmap) == Size(volume.shape) # Cardinality(DOMAIN labelmap)

\* model_graph = build_graph(volume, labelmap): the centroids are computed from
\* the labelmap alone, the intensities from the flattened volume
BuildGraphCall ==
    /\ pc = "call"
    /\ IF IntensityIndexError(model_volume, model_labelmap)
       THEN /\ pc' = "raised"
            /\ model_graph' = << >>
       ELSE /\ pc' = "returned"
            /\ model_graph' = build_graph(model_volume.data, model_labelmap, TRUE, << >>)
    /\ UNCHANGED << inputs, statistics, super_graph, super_adjacency, solution, solution_costs,
                    joined_labelmap_data, observation_graph, label, visit_order,
                    total_epochs, epoch, attempt >>

ShapeNext == BuildGraphCall

ShapeSpec == ShapeInit /\ [][ShapeNext]_vars

\* C16: building a graph from a volume and a labelmap whose shapes differ
\* fails with an error before any vertex or edge is produced.
C16_ShapeMismatchFails ==
    (pc # "call" /\ model_volume.shape # Shape) => (pc = "raised" /\ model_graph = << >>)

\* build_graph has returned a graph for a volume whose shape is not the labelmap's
C16_Witness ==
    /\ pc = "returned"
    /\ model_volume.shape # Shape
    /\ model_graph # << >>

(***************************************************************************)
(* Contiguity detection and repair.                                        *)
(***************************************************************************)
\* the voxels of the super-regions that hold the label
LabelVoxels(sol, l) == {v \in Voxels : sol[observed_labelmap_data[v]] = l}

\* the connected spatial components of the label: sets of voxels
Components(sol, l) ==
    Value({{Grow(mask, {seed}) : seed \in voxels} :
           voxels \in {LabelVoxels(sol, l)},
           mask \in {Array([v \in Voxels |-> v \in LabelVoxels(sol, l)])}})

\* the initial vertex cost of a component against the reference vertex of the label
ComponentCost(component, l) ==
    Value({WeightedDistance(
               NormalisedRow(vertex, statistics.mean_vertex, statistics.std_vertex),
               model_graph.vertices[l], initial_weights) :
           vertex \in {DirectVertex(observation_volume,
                                    [v \in Voxels |-> IF v \in component THEN 1 ELSE 0], 1)}})

\* the super-regions with a voxel in the component
RegionsOf(component) == {observed_labelmap_data[v] : v \in component}

\* the new solution keeps the label on the super-regions of the component,
\* marks the label's other super-regions and leaves every other super-region
KeepsOnly(component, l, new) ==
    \A r \in DOMAIN solution :
        new[r] = IF r \in RegionsOf(component) THEN l
                 ELSE IF solution[r] = l THEN UNASSIGNED
                 ELSE solution[r]

\* C17: contiguity detection: for a reference label whose super-regions form
\* more than one connected spatial component, exactly the super-regions of a
\* component with the lowest vertex cost against that label's reference
\* vertex keep the label and every super-region of the other components is
\* set to -1; a label whose super-regions form exactly one component is left
\* unchanged, and super-regions of other labels are not touched.
C17_DetectionKeepsBest ==
    [][pc = "detect" =>
          \E components \in {Components(solution, label)} :
             /\ Cardinality(components) = 1 => solution' = solution
             /\ Cardinality(components) > 1 =>
                   \E kept \in components :
                      /\ \A other \in components :
                            ~FLt(ComponentCost(other, label), ComponentCost(kept, label))
                      /\ KeepsOnly(kept, label, solution')]_vars

\* the detection of label 0 has marked a super-region that precedes every
\* super-region which kept the label: the component kept was not the first
C17_Witness ==
    /\ pc = "detect" /\ label = 1
    /\ \E r \in DOMAIN solution :
          /\ solution[r] = UNASSIGNED
          /\ \E q \in DOMAIN solution : solution[q] = 0
          /\ \A q \in DOMAIN solution : solution[q] = 0 => q > r

\* the super-regions that are UNASSIGNED in the solution
Unassigned(sol) == {r \in DOMAIN sol : sol[r] = UNASSIGNED}

\* a step of the search changes only UNASSIGNED super-regions, gives them a
\* neighbour's label, and leaves the search only with none UNASSIGNED
RepairStepFrame ==
    pc \in {"repair_while", "repair_for"} =>
          /\ \A r \in DOMAIN solution :
                /\ solution[r] # UNASSIGNED => solution'[r] = solution[r]
                /\ solution'[r] # solution[r] =>
                      /\ solution'[r] \in DOMAIN model_graph.vertices
                      /\ \E n \in super_adjacency[r] : solution[n] = solution'[r]
          /\ Cardinality(Unassigned(solution')) <= Cardinality(Unassigned(solution))
          /\ pc' \in {"repair_while", "repair_for"}
                \/ (pc' = "joining" /\ Unassigned(solution) = {})

\* C18: during the contiguity-repair search only UNASSIGNED super-regions are
\* modified: a super-region holding a valid label keeps it, an UNASSIGNED
\* super-region only ever receives a label different from -1 that one of its
\* spatial neighbours holds, the number of UNASSIGNED super-regions never
\* increases, and the search ends only when no super-region is UNASSIGNED.
C18_RepairFrame == [][RepairStepFrame]_vars

\* in the middle of the search: the last visit has given an UNASSIGNED
\* super-region the label of a neighbour, and another is still UNASSIGNED
C18_Witness ==
    /\ pc \in {"repair_while", "repair_for"}
    /\ current_cost # 0
    /\ current_prediction_index # UNASSIGNED
    /\ solution[super_vertex_index] = current_prediction_index
    /\ \E n \in super_adjacency[super_vertex_index] : solution[n] = current_prediction_index
    /\ Unassigned(solution) # {}

(***************************************************************************)
(* Trial labelmaps.                                                        *)
(***************************************************************************)
\* the trial labelmap of the candidate is the joined labelmap outside the
\* super-region and the candidate label inside it
TrialIsLocal(super_vertex, p) ==
    \E trial \in {WorkingLabelmap(joined_labelmap_data, super_vertex, p)} :
        \A v \in Voxels :
            trial[v] = IF observed_labelmap_data[v] = super_vertex THEN p
                       ELSE joined_labelmap_data[v]

\* an attempt on the super-region builds local trials and leaves the joined
\* labelmap, its graph, the statistics and the labels of the other super-regions
AttemptFrame(super_vertex) ==
    /\ \A p \in PotentialPredictions(super_vertex) \ {UNASSIGNED} : TrialIsLocal(super_vertex, p)
    /\ joined_labelmap_data' = joined_labelmap_data
    /\ observation_graph' = observation_graph
    /\ statistics' = statistics
    /\ \A r \in DOMAIN solution : r # super_vertex => solution'[r] = solution[r]

\* the frame of the attempts of the improvement loop and of the repair sweep
TrialStepFrame ==
    /\ pc = "improve" => AttemptFrame(SelectedSuperVertex)
    /\ (pc = "repair_for" /\ solution[Head(visit_order)] = UNASSIGNED) =>
          AttemptFrame(Head(visit_order))

\* C19: each trial labelmap equals the joined labelmap snapshot at every voxel
\* outside the selected super-region and carries the candidate label at every
\* voxel of the selected super-region; evaluating the candidates leaves the
\* joined labelmap snapshot, the assignment of the other super-regions and
\* the normalization statistics unchanged: the trial is built on a copy.
C19_TrialOnCopy == [][TrialStepFrame]_vars

\* an attempt has evaluated two candidate labels and accepted one of them
C19_Witness ==
    /\ AttemptChanged
    /\ Cardinality(NeighbourLabels \ {PreviousPrediction}) >= 2

(***************************************************************************)
(* The joined labelmap and graph at the start of an epoch.                 *)
(***************************************************************************)
\* C20: at the start of every improvement epoch the joined labelmap is the
\* current assignment applied to the over-segmentation: every voxel of
\* super-region s carries the label currently assigned to s; and the joined
\* graph is the graph built from it, with exactly as many vertices as the
\* reference graph.
C20_JoinedFollowsSolution ==
    pc = "improve" =>
        /\ \A v \in Voxels : joined_labelmap_data[v] = solution[observed_labelmap_data[v]]
        /\ DOMAIN observation_graph.vertices = DOMAIN model_graph.vertices
        /\ DOMAIN observation_graph.edges = DOMAIN model_graph.edges
        /\ observation_graph =
              normalize_graph(build_graph(observation_volume, joined_labelmap_data, TRUE,
                                          << Rows(model_graph.vertices) >>), statistics)

\* the start of a later epoch, after an attempt: the assignment holds several
\* labels, differs from the reference labelmap, and the joined labelmap
\* carries the label the last attempt ended with
C20_Witness ==
    /\ pc = "improve" /\ epoch >= 1
    /\ Cardinality(Unique(joined_labelmap_data)) >= 2
    /\ joined_labelmap_data # model_labelmap
    /\ \A v \in Voxels : observed_labelmap_data[v] = super_vertex_index =>
                              joined_labelmap_data[v] = current_prediction_index

(***************************************************************************)
(* The selection of the super-regions of an epoch.                         *)
(***************************************************************************)
\* improvement_cutoff = 1 of both scripts
improvement_cutoff == 1

\* sorted(enumerate(solution_costs), key=lambda x: x[1], reverse=True)[:cutoff],
\* the list the inner loop of calibration.py iterates over (commented out in
\* 2d_full_process.py)
TopSlice(cutoff) ==
    Value({SubSeq(sorted, 1, cutoff) : sorted \in {SortedDescending(solution_costs)}})

\* [np.argmax(solution_costs)], the list the inner loop of 2d_full_process.py
\* iterates over
ArgMaxForm == << ArgMax(solution_costs) >>

\* the sequence holds K different super-regions in descending order of
\* priority cost, ties in index order, and no other super-region precedes
\* one of them in that order
IsTopK(attempted, K) ==
    /\ Len(attempted) = K
    /\ \A a, b \in 1 .. Len(attempted) :
          a < b => \/ solution_costs[attempted[a]] > solution_costs[attempted[b]]
                   \/ /\ solution_costs[attempted[a]] = solution_costs[attempted[b]]
                      /\ attempted[a] < attempted[b]
    /\ \A a \in 1 .. Len(attempted) :
          \A r \in DOMAIN solution_costs :
              (\A b \in 1 .. Len(attempted) : attempted[b] # r) =>
                  \/ solution_costs[r] < solution_costs[attempted[a]]
                  \/ solution_costs[r] = solution_costs[attempted[a]] /\ r > attempted[a]

\* C21: in each epoch the super-regions attempted are exactly the K
\* super-regions with the highest priority cost, in descending order of
\* priority cost (ties in index order), K being the cutoff: with K = 1 the
\* single highest-priority super-region, the same in the argmax form and in
\* the sorted top-1 form, and with K equal to the number of super-regions
\* every super-region once.
C21_TopKAttempted ==
    pc = "improve" =>
        /\ << SelectedSuperVertex >> = TopSlice(improvement_cutoff)
        /\ ArgMaxForm = TopSlice(1)
        /\ \A K \in 1 .. Rows(solution_costs) : IsTopK(TopSlice(K), K)
        /\ \E all \in {TopSlice(Rows(solution_costs))} :
              {all[k] : k \in DOMAIN all} = DOMAIN solution_costs

\* an epoch starts with two super-regions tied at the highest priority cost,
\* a positive one, and a third super-region at a lower positive cost
C21_Witness ==
    /\ pc = "improve" /\ epoch < MaxEpochs
    /\ \E r, q, t \in DOMAIN solution_costs :
          /\ r < q
          /\ solution_costs[r] = solution_costs[q]
          /\ \A u \in DOMAIN solution_costs : solution_costs[u] <= solution_costs[r]
          /\ solution_costs[t] > 0 /\ solution_costs[t] < solution_costs[r]

(***************************************************************************)
(* The priority costs over the epochs.                                     *)
(***************************************************************************)
\* the costs a recomputation could give the super-region attempted last: its
\* vertex cost to the label it holds, as in Step 5, or the mean vertex cost
\* of the rebuilt joined graph (the expression commented out in the source)
RealCosts ==
    {InitialCostTo(super_vertex_index, solution[super_vertex_index]),
     Value({FMean(costs, Rows(costs)) :
            costs \in {compute_vertex_cost(observation_graph.vertices,
                                           model_graph.vertices, vertex_weights)}})}

\* C22: at every epoch boundary the priority costs are recomputed: at the
\* start of the next epoch the super-region deprioritized in the last epoch
\* carries a real cost again.
C22_RecomputedAtBoundary ==
    (pc = "improve" /\ epoch > 0) => solution_costs[super_vertex_index] \in RealCosts

\* an epoch starts after the attempt on a super-region whose real costs are
\* not 0
C22_Witness ==
    /\ pc = "improve" /\ epoch > 0
    /\ 0 \notin RealCosts

(***************************************************************************)
(* build_graph without a target size.                                      *)
(***************************************************************************)
\* the labelmaps the scripts build a graph of without target_vertices, each
\* with its volume: the reference labelmap (Step 2) and the over-segmentation
\* (Step 4)
UntargetedCalls ==
    {[volume |-> model_volume, labelmap |-> model_labelmap],
     [volume |-> observation_volume, labelmap |-> observed_labelmap_data]}

\* C23: the vertices of a graph built without target size are indexed by
\* label id: one vertex per label that has voxels, and the vertex at position
\* i describes the label with id i.
C23_IndexedByLabel ==
    pc = "step4" =>
        \A call \in UntargetedCalls :
            \E graph \in {build_graph(call.volume, call.labelmap, FALSE, << >>)} :
                /\ Rows(graph.vertices) = Cardinality(Unique(call.labelmap))
                /\ \A i \in DOMAIN graph.vertices :
                      /\ i \in Unique(call.labelmap)
                      /\ graph.vertices[i] = DirectVertex(call.volume, call.labelmap, i)

\* what build_graph does without target size: the vertex at position i
\* describes the label of rank i among the labels that have voxels
C23_IndexedByRank ==
    pc = "step4" =>
        \A call \in UntargetedCalls :
            \E graph \in {build_graph(call.volume, call.labelmap, FALSE, << >>)} :
                /\ Rows(graph.vertices) = Cardinality(Unique(call.labelmap))
                /\ \A l \in Unique(call.labelmap) :
                      graph.vertices[RankIn(Unique(call.labelmap), l)]
                          = DirectVertex(call.volume, call.labelmap, l)

\* the reference graph has been built of a labelmap that holds the labels 0
\* and 2 and not the label 1
C23_Witness ==
    /\ pc = "step4"
    /\ Unique(model_labelmap) = {0, 2}

(***************************************************************************)
(* The cost function of an improvement step.                               *)
(***************************************************************************)
\* the labels the attempt of this epoch has evaluated as candidates
EvaluatedCandidates == NeighbourLabels \ {PreviousPrediction}

\* C24: within one improvement step the current global cost and the global
\* cost of every candidate are computed by the same cost function: the cost
\* the step gives a candidate is the cost of the candidate's assignment under
\* the vertex, edge and graph weights the current cost is computed with.
C24_SameCostFunction ==
    pc = "epoch_end" =>
        \A p \in EvaluatedCandidates :
            PotentialCost(super_vertex_index, p) = CandidateCost(p)

\* calibration.py passes all-ones edge weights, the default of compute_edge_cost
C24_Calibration == script = "calibration" => C24_SameCostFunction

\* an attempt of 2d_full_process.py has evaluated a candidate
C24_Witness ==
    /\ pc = "epoch_end" /\ script = "full2d"
    /\ EvaluatedCandidates # {}

(***************************************************************************)
(* Connectivity of the destination label of an improvement step.           *)
(***************************************************************************)
\* the label the super-region held when the epoch started
JoinedLabel(r) == joined_labelmap_data[CHOOSE v \in Voxels : observed_labelmap_data[v] = r]

\* the assignment the attempt of this epoch started from
SolutionBefore == [r \in DOMAIN solution |-> JoinedLabel(r)]

\* the super-regions the attempt of this epoch has relabeled
MovedRegions == {r \in DOMAIN solution : solution[r] # JoinedLabel(r)}

\* C25: an accepted improvement step keeps the destination label connected:
\* the moved super-region is adjacent to a super-region that holds the
\* destination label, and if the holders of the destination label formed a
\* connected set of the adjacency index before the step, they form one after.
C25_DestinationConnected ==
    pc = "epoch_end" =>
        \A r \in MovedRegions :
            /\ \E n \in super_adjacency[r] : n # r /\ SolutionBefore[n] = solution[r]
            /\ OneComponent(SolutionBefore, solution[r]) => OneComponent(solution, solution[r])

\* an attempt has moved a super-region to a label that two or more
\* super-regions held, in a connected set
C25_Witness ==
    /\ pc = "epoch_end"
    /\ \E r \in MovedRegions :
          /\ Cardinality({q \in DOMAIN solution : SolutionBefore[q] = solution[r]}) >= 2
          /\ OneComponent(SolutionBefore, solution[r])

(***************************************************************************)
(* UNASSIGNED super-regions in the joined labelmap of the repair.          *)
(***************************************************************************)
\* C26: during contiguity repair, in the joined labelmap the trial labelmaps
\* are built from, no voxel of a super-region whose assignment is -1 carries
\* a reference label (in particular not label 0).
C26_UnassignedCarryNoLabel ==
    pc = "repair_for" =>
        \A r \in Unassigned(solution) :
            \A v \in Voxels :
                observed_labelmap_data[v] = r =>
                    joined_labelmap_data[v] \notin DOMAIN model_graph.vertices

\* a repair visit is about to evaluate trial labelmaps for an UNASSIGNED
\* super-region while another super-region is UNASSIGNED too
C26_Witness ==
    /\ pc = "repair_for"
    /\ visit_order # << >>
    /\ Head(visit_order) \in Unassigned(solution)
    /\ PotentialPredictions(Head(visit_order)) \ {UNASSIGNED} # {}
    /\ Unassigned(solution) \ {Head(visit_order)} # {}

(***************************************************************************)
(* The priority costs never increase.                                      *)
(***************************************************************************)
\* all priority costs are 0
AllDeprioritized == \A r \in DOMAIN solution_costs : solution_costs[r] = 0

\* a step of the script, as to the priority costs: once they exist none is
\* raised, and the step of an attempt leaves the attempted super-region at 0
\* and works on index 0 when every priority cost was 0
PriorityStep ==
    /\ DOMAIN solution_costs # {} =>
          /\ DOMAIN solution_costs' = DOMAIN solution_costs
          /\ \A r \in DOMAIN solution_costs : solution_costs'[r] <= solution_costs[r]
    /\ (pc = "improve" /\ pc' = "epoch_end") =>
          /\ solution_costs'[super_vertex_index'] = 0
          /\ \A r \in DOMAIN solution_costs :
                r # super_vertex_index' => solution_costs'[r] = solution_costs[r]
          /\ AllDeprioritized => super_vertex_index' = 0

\* C27: every super-region attempted has its priority cost set to 0 whether
\* or not a replacement was accepted, and no priority cost is ever raised
\* afterwards: a super-region is attempted at most once with a positive
\* priority cost, and once all priority costs are 0 the super-region of
\* index 0 is attempted in every remaining epoch.
C27_PriorityNeverRaised == [][PriorityStep]_vars

\* super-region 0 started with priority cost 0, another super-region with a
\* positive one; all priority costs have become 0 and an attempt that kept
\* the label has worked on super-region 0
C27_Witness ==
    /\ pc = "epoch_end"
    /\ AllDeprioritized
    /\ super_vertex_index = 0
    /\ ~AttemptChanged
    /\ \E l \in DOMAIN model_graph.vertices : InitialCostTo(0, l) = 0
    /\ \E r \in DOMAIN solution :
          \A l \in DOMAIN model_graph.vertices : InitialCostTo(r, l) > 0

(***************************************************************************)
(* The reference labels held during the improvement.                       *)
(***************************************************************************)
\* the reference labels held by at least one super-region
HeldLabels(sol) == {sol[r] : r \in DOMAIN sol} \cap DOMAIN model_graph.vertices

\* a cost that is strictly lower than no cost: +infinity or NaN
NeverLower(cost) == ~IsFinite(cost) /\ cost # NInf

\* a step of the improvement, as to the labels held: an attempt empties no
\* label, and the trials it has evaluated in which a label is absent cost
\* +infinity or NaN
HeldStep ==
    /\ (pc = "improve" /\ pc' = "epoch_end") =>
          HeldLabels(solution) \subseteq HeldLabels(solution')
    /\ pc = "epoch_end" =>
          \A p \in EvaluatedCandidates :
              SentinelBearing(Trial(p)) => NeverLower(PotentialCost(super_vertex_index, p))

\* C28: the improvement loop never accepts a relabeling that leaves a
\* reference label with no voxels: a trial labelmap in which a reference label
\* is absent has a global cost that is strictly lower than no current cost,
\* and the set of reference labels held by at least one super-region never
\* shrinks during improvement.
C28_LabelsNeverShrink == [][HeldStep]_vars

\* an attempt has worked on the only super-region of its label and has
\* evaluated a candidate, while every reference label was held and the
\* current cost was finite
C28_Witness ==
    /\ pc = "epoch_end"
    /\ Cardinality({r \in DOMAIN solution : SolutionBefore[r] = PreviousPrediction}) = 1
    /\ EvaluatedCandidates # {}
    /\ HeldLabels(SolutionBefore) = DOMAIN model_graph.vertices
    /\ IsFinite(CurrentCost)

(***************************************************************************)
(* An epoch that starts with an empty reference label.                     *)
(***************************************************************************)
\* finite costs a candidate can have
FiniteCosts == {0, 1, SCALE, 1000 * SCALE}

\* C29: if at the start of an improvement epoch some reference label is held
\* by no super-region, the current global cost compares as higher than any
\* finite candidate cost, so that a candidate of finite cost can be accepted
\* and the empty label does not block further improvement.
C29_EmptyLabelDoesNotBlock ==
    (pc = "improve" /\ SentinelBearing(joined_labelmap_data)) =>
        \A cost \in FiniteCosts : FLt(cost, CurrentCost)

\* what the scripts do: in an epoch that starts with an empty reference label
\* the current cost is NaN, no evaluated candidate has a finite cost and the
\* attempt keeps the label
C29_EmptyLabelBlocks ==
    (pc = "epoch_end" /\ SentinelBearing(joined_labelmap_data)) =>
        /\ IsNaN(CurrentCost)
        /\ \A p \in EvaluatedCandidates : ~IsFinite(PotentialCost(super_vertex_index, p))
        /\ ~AttemptChanged

\* an epoch starts with a reference label that no super-region holds, and the
\* super-region it selects has a candidate label
C29_Witness ==
    /\ pc = "improve" /\ epoch < MaxEpochs
    /\ SentinelBearing(joined_labelmap_data)
    /\ PotentialPredictions(SelectedSuperVertex) \ {solution[SelectedSuperVertex]} # {}

(***************************************************************************)
(* Detection on a reference label that no super-region holds.              *)
(***************************************************************************)
\* the detection is about to work on a label that no super-region holds
DetectsEmptyLabel == pc = "detect" /\ label \notin HeldLabels(solution)

\* the detection step of a label that no super-region holds goes on to the
\* next label, or to the repair, with the assignment unchanged
EmptyLabelStep ==
    DetectsEmptyLabel =>
        /\ pc' \in {"detect", "repair_while"}
        /\ solution' = solution

\* C30: the contiguity-detection pass handles a reference label that no
\* super-region holds: the label has zero connected components, is skipped
\* without error, and the assignment is left unchanged.
C30_EmptyLabelSkipped == [][EmptyLabelStep]_vars

\* the detection reaches a label that no super-region holds; the label's
\* voxels have zero connected components
C30_Witness ==
    /\ DetectsEmptyLabel
    /\ PotentialRegions(solution, label).count = 0

=============================================================================
